---- MODULE Spec2Model ----
(***************************************************************************)
(* Multi-domain ad search of the web client: the domain normalizer of the  *)
(* tag input (components/DomainTagInput), the per-domain provider call and *)
(* the fan-out searchAds with its cluster merge (services/api.ts).         *)
(*                                                                         *)
(* Strings the code inspects character by character (domains, raw input)   *)
(* are sequences of one-character strings.  A nullable value is a sequence *)
(* of length 0 (null) or 1 (the value).                                    *)
(***************************************************************************)
EXTENDS Integers, Sequences, FiniteSets, TLC

VARIABLES
    value, parts, normalized, renormalized, nstage,   \* normalizer runs
    results, allClusters, offsetClusters, cstage,     \* combineClusteringData runs
    pc, domains, requests, searchPromises, settleOrder, outcome,  \* searchAds run
    invocations,                                      \* searchAds calls made so far
    tagDomains, inputValue, tagEvent,                 \* the tag input
    hookResults, isLoading, hookError, searches, overlapped  \* useAdsSearch

vars == << value, parts, normalized, renormalized, nstage,
           results, allClusters, offsetClusters, cstage,
           pc, domains, requests, searchPromises, settleOrder, outcome,
           invocations,
           tagDomains, inputValue, tagEvent,
           hookResults, isLoading, hookError, searches, overlapped >>

normVars == << value, parts, normalized, renormalized, nstage >>
combVars == << results, allClusters, offsetClusters, cstage >>
srchVars == << pc, domains, requests, searchPromises, settleOrder, outcome,
              invocations >>
tagVars == << tagDomains, inputValue, tagEvent >>
hookVars == << hookResults, isLoading, hookError, searches, overlapped >>

----------------------------------------------------------------------------
(* Bounds *)

MaxPieces == 3      \* pieces concatenated into a free-form raw input
MaxBlank == 2       \* length of a run of surrounding whitespace
MaxDomains == 2     \* domains / per-domain results in one request
MaxClusters == 3    \* clusters in all the cluster sets of one merge
MaxSize == 2        \* size of a cluster
MaxInvocations == 2 \* searchAds calls made one after the other
MaxSearches == 2    \* searches started through the hook

Null == << >>
Some(x) == << x >>

----------------------------------------------------------------------------
(* Strings *)

\* The characters the strings of the model are written with: U+0009..U+000D,
\* U+0020..U+007E without U+0060, U+00A0..U+00FF, U+1680 and U+FEFF.
Chars == { "\t","\n","","\f","\r",
           " ","!","\"","#","$","%","&","'","(",")","*","+",",","-",".","/",
           "0","1","2","3","4","5","6","7","8","9",":",";","<","=",">","?",
           "@","A","B","C","D","E","F","G","H","I","J","K","L","M","N","O",
           "P","Q","R","S","T","U","V","W","X","Y","Z","[","\\","]","^","_",
           "a","b","c","d","e","f","g","h","i","j","k","l","m","n","o",
           "p","q","r","s","t","u","v","w","x","y","z","{","|","}","~",
           " ","¡","¢","£","¤","¥","¦","§","¨","©","ª","«","¬","­","®","¯",
           "°","±","²","³","´","µ","¶","·","¸","¹","º","»","¼","½","¾","¿",
           "À","Á","Â","Ã","Ä","Å","Æ","Ç","È","É","Ê","Ë","Ì","Í","Î","Ï",
           "Ð","Ñ","Ò","Ó","Ô","Õ","Ö","×","Ø","Ù","Ú","Û","Ü","Ý","Þ","ß",
           "à","á","â","ã","ä","å","æ","ç","è","é","ê","ë","ì","í","î","ï",
           "ð","ñ","ò","ó","ô","õ","ö","÷","ø","ù","ú","û","ü","ý","þ","ÿ",
           " ","﻿" }

\* The characters of Chars that String.prototype.toLowerCase changes, A-Z and
\* U+00C0..U+00DE without U+00D7, and what it changes each to; it changes one
\* character at a time, whatever stands beside it, and leaves every other
\* character of Chars as it is.
UpperChars == << "A","B","C","D","E","F","G","H","I","J","K","L","M",
                 "N","O","P","Q","R","S","T","U","V","W","X","Y","Z",
                 "À","Á","Â","Ã","Ä","Å","Æ","Ç","È","É","Ê","Ë","Ì","Í","Î",
                 "Ï","Ð","Ñ","Ò","Ó","Ô","Õ","Ö","Ø","Ù","Ú","Û","Ü","Ý","Þ" >>
LowerChars == << "a","b","c","d","e","f","g","h","i","j","k","l","m",
                 "n","o","p","q","r","s","t","u","v","w","x","y","z",
                 "à","á","â","ã","ä","å","æ","ç","è","é","ê","ë","ì","í","î",
                 "ï","ð","ñ","ò","ó","ô","õ","ö","ø","ù","ú","û","ü","ý","þ" >>

\* The characters String.prototype.trim removes, the WhiteSpace and
\* LineTerminator of ECMAScript, that can be written in a string here: U+0020,
\* U+0009, U+000A, U+000D, U+000C, and, each written as the character itself,
\* U+000B, U+00A0, U+1680 and U+FEFF.  trim also removes U+2000..U+200A,
\* U+2028, U+2029, U+202F, U+205F and U+3000, which the parser refuses in a
\* string.
WhiteSpace == { " ", "\t", "\n", "\r", "\f", "", " ", " ", "﻿" }

\* the white space the inputs are written with: U+0020, U+00A0, U+000A
InputWhiteSpace == { " ", " ", "\n" }

UpperSet == { UpperChars[i] : i \in 1..Len(UpperChars) }

\* c.toLowerCase() for a character c of Chars; it has no value for a character
\* outside Chars, and so have toLowerCase and normalizeDomain for a string
\* that holds one
LowerChar(c) ==
    CASE c \in UpperSet ->
             LowerChars[CHOOSE i \in 1..Len(UpperChars) : UpperChars[i] = c]
      [] c \in Chars \ UpperSet -> c

toLowerCase(s) == [ i \in 1..Len(s) |-> LowerChar(s[i]) ]

RECURSIVE TrimStart(_)
TrimStart(s) ==
    IF s # << >> /\ Head(s) \in WhiteSpace THEN TrimStart(Tail(s)) ELSE s

RECURSIVE TrimEnd(_)
TrimEnd(s) ==
    IF s # << >> /\ s[Len(s)] \in WhiteSpace
    THEN TrimEnd(SubSeq(s, 1, Len(s) - 1))
    ELSE s

trim(s) == TrimEnd(TrimStart(s))

StartsWith(s, p) == Len(s) >= Len(p) /\ SubSeq(s, 1, Len(p)) = p

DropPrefix(s, p) == SubSeq(s, Len(p) + 1, Len(s))

HttpScheme == << "h","t","t","p",":","/","/" >>
HttpsScheme == << "h","t","t","p","s",":","/","/" >>
WwwPrefix == << "w","w","w","." >>

\* domain.replace(/^https?:\/\//, '')
RemoveProtocol(s) ==
    IF StartsWith(s, HttpsScheme) THEN DropPrefix(s, HttpsScheme)
    ELSE IF StartsWith(s, HttpScheme) THEN DropPrefix(s, HttpScheme)
    ELSE s

\* domain.replace(/\/$/, '')
RemoveTrailingSlash(s) ==
    IF s # << >> /\ s[Len(s)] = "/" THEN SubSeq(s, 1, Len(s) - 1) ELSE s

\* domain.replace(/^www\./, '')
RemoveWww(s) ==
    IF StartsWith(s, WwwPrefix) THEN DropPrefix(s, WwwPrefix) ELSE s

normalizeDomainNoLower(v) ==
    RemoveWww(RemoveTrailingSlash(RemoveProtocol(trim(v))))

normalizeDomain(v) ==
    RemoveWww(RemoveTrailingSlash(RemoveProtocol(toLowerCase(trim(v)))))

----------------------------------------------------------------------------
(* Inputs of the normalizer runs *)

Hosts == { << "a",".","c","o" >>, << "É",".","C","o" >>,
           << "w","w","w",".","b" >>, << "x" >> }

Schemes == { << >>, HttpScheme, HttpsScheme,
             << "H","T","T","P",":","/","/" >>,
             << "H","t","t","p","s",":","/","/" >> }

WwwForms == { << >>, WwwPrefix, << "W","w","w","." >> }

Slashes == { << >>, << "/" >> }

RECURSIVE Blanks(_)
Blanks(n) ==
    IF n = 0 THEN { << >> }
    ELSE LET prev == Blanks(n - 1)
         IN  prev \cup { << c >> \o b : c \in InputWhiteSpace, b \in prev }

\* An input written as the tag-input placeholder suggests: whitespace, scheme,
\* www. prefix, host name, one trailing slash, whitespace.
StructuredParts ==
    [ lead : Blanks(MaxBlank), scheme : Schemes, www : WwwForms, host : Hosts,
      slash : Slashes, trail : Blanks(MaxBlank), structured : { TRUE } ]

NoParts ==
    [ lead |-> << >>, scheme |-> << >>, www |-> << >>, host |-> << >>,
      slash |-> << >>, trail |-> << >>, structured |-> FALSE ]

Build(p) == p.lead \o p.scheme \o p.www \o p.host \o p.slash \o p.trail

Pieces == { << " " >>, << "\r" >>, << "/" >>, HttpScheme, HttpsScheme, WwwPrefix,
            << "a",".","c","o" >>, << "B" >> }

RECURSIVE PieceStrings(_)
PieceStrings(n) ==
    IF n = 0 THEN { << >> }
    ELSE LET prev == PieceStrings(n - 1)
         IN  prev \cup { p \o s : p \in Pieces, s \in prev }

----------------------------------------------------------------------------
(* Normalizer runs: normalizeDomain applied to an input, then to its result *)

NormIdle ==
    /\ value = << >> /\ parts = NoParts
    /\ normalized = Null /\ renormalized = Null /\ nstage = "off"

CombIdle ==
    /\ results = << >> /\ allClusters = Null /\ offsetClusters = << >>
    /\ cstage = "off"

SrchIdle ==
    /\ pc = "off" /\ domains = << >> /\ requests = << >>
    /\ searchPromises = << >> /\ settleOrder = << >> /\ outcome = Null
    /\ invocations = 0

TagIdle == tagDomains = << >> /\ inputValue = << >> /\ tagEvent = "off"

HookIdle ==
    /\ hookResults = Null /\ isLoading = FALSE /\ hookError = Null
    /\ searches = << >> /\ overlapped = FALSE

InitNorm ==
    /\ \/ \E p \in StructuredParts : parts = p /\ value = Build(p)
       \/ \E s \in PieceStrings(MaxPieces) : parts = NoParts /\ value = s
    /\ normalized = Null /\ renormalized = Null /\ nstage = "input"
    /\ CombIdle /\ SrchIdle /\ TagIdle /\ HookIdle

Normalize ==
    /\ nstage = "input"
    /\ normalized' = Some(normalizeDomain(value))
    /\ nstage' = "once"
    /\ UNCHANGED << value, parts, renormalized >>
    /\ UNCHANGED << combVars, srchVars, tagVars, hookVars >>

NormalizeAgain ==
    /\ nstage = "once"
    /\ renormalized' = Some(normalizeDomain(normalized[1]))
    /\ nstage' = "twice"
    /\ UNCHANGED << value, parts, normalized >>
    /\ UNCHANGED << combVars, srchVars, tagVars, hookVars >>

NextNorm == Normalize \/ NormalizeAgain

SpecNorm == InitNorm /\ [][NextNorm]_vars

----------------------------------------------------------------------------
(* combineClusteringData (services/api.ts) *)

EmptyClustering ==
    [ clusters |-> << >>, unclustered |-> << >>, total_phrases |-> 0,
      error |-> Null ]

OffsetClustersWithoutPhrases(clusters, clusterIdOffset) ==
    [ i \in 1..Len(clusters) |->
        [ clusters[i] EXCEPT !.id = @ + clusterIdOffset, !.phrases = << >> ] ]

\* { ...cluster, id: cluster.id + clusterIdOffset } for each cluster
OffsetClusters(clusters, clusterIdOffset) ==
    [ i \in 1..Len(clusters) |->
        [ clusters[i] EXCEPT !.id = @ + clusterIdOffset ] ]

RECURSIVE MergeLoop(_, _, _)
MergeLoopUnclusteredLost(rs, acc, clusterIdOffset) ==
    IF rs = << >> THEN acc
    ELSE LET result == Head(rs) IN
         IF result.clustering = Null
         THEN MergeLoop(Tail(rs), acc, clusterIdOffset)
         ELSE LET c == result.clustering[1] IN
              MergeLoop(Tail(rs),
                        [ clusters |-> acc.clusters
                                         \o OffsetClusters(c.clusters, clusterIdOffset),
                          unclustered |-> c.unclustered,
                          total_phrases |-> acc.total_phrases + c.total_phrases,
                          error |-> acc.error ],
                        clusterIdOffset + Len(c.clusters))

\* the for-of loop over results, carrying allClusters and clusterIdOffset
MergeLoop(rs, acc, clusterIdOffset) ==
    IF rs = << >> THEN acc
    ELSE LET result == Head(rs) IN
         IF result.clustering = Null
         THEN MergeLoop(Tail(rs), acc, clusterIdOffset)
         ELSE LET c == result.clustering[1] IN
              MergeLoop(Tail(rs),
                        [ clusters |-> acc.clusters
                                         \o OffsetClusters(c.clusters, clusterIdOffset),
                          unclustered |-> acc.unclustered \o c.unclustered,
                          total_phrases |-> acc.total_phrases + c.total_phrases,
                          error |-> acc.error ],
                        clusterIdOffset + Len(c.clusters))

\* Array.prototype.sort is stable: an element goes behind every element the
\* comparator does not order after it.
RECURSIVE InsertAscending(_, _)
InsertAscending(sorted, c) ==
    IF sorted = << >> THEN << c >>
    ELSE IF Head(sorted).size <= c.size
         THEN << Head(sorted) >> \o InsertAscending(Tail(sorted), c)
         ELSE << c >> \o sorted

RECURSIVE SortBySizeAscending(_)
SortBySizeAscending(cs) ==
    IF cs = << >> THEN << >>
    ELSE InsertAscending(SortBySizeAscending(SubSeq(cs, 1, Len(cs) - 1)),
                         cs[Len(cs)])

RECURSIVE InsertBySize(_, _)
InsertBySize(sorted, c) ==
    IF sorted = << >> THEN << c >>
    ELSE IF Head(sorted).size - c.size >= 0
         THEN << Head(sorted) >> \o InsertBySize(Tail(sorted), c)
         ELSE << c >> \o sorted

\* allClusters.clusters.sort((a, b) => b.size - a.size)
RECURSIVE SortBySize(_)
SortBySize(cs) ==
    IF cs = << >> THEN << >>
    ELSE InsertBySize(SortBySize(SubSeq(cs, 1, Len(cs) - 1)), cs[Len(cs)])

ReassignIdsSkipped(cs) == cs

\* allClusters.clusters.forEach((cluster, idx) => { cluster.id = idx })
ReassignIds(cs) == [ i \in 1..Len(cs) |-> [ cs[i] EXCEPT !.id = i - 1 ] ]

\* An object of the results is named by the place it has in them: the j-th
\* cluster of the i-th result is << i, j >>.  NewObject is any object that is
\* none of them.
NewObject == << 0, 0 >>

PushedObjectSame(ref) == ref

\* the object pushed for the cluster ref: the spread { ...cluster, id } makes
\* a new one
PushedObject(ref) == NewObject

\* the objects allClusters.clusters holds when the loop ends, each with the
\* size the sort reads
RECURSIVE PushedObjects(_, _)
PushedObjects(rs, i) ==
    IF i > Len(rs) THEN << >>
    ELSE (IF rs[i].clustering = Null THEN << >>
          ELSE [ j \in 1..Len(rs[i].clustering[1].clusters) |->
                   [ ref |-> PushedObject(<< i, j >>),
                     size |-> rs[i].clustering[1].clusters[j].size ] ])
         \o PushedObjects(rs, i + 1)

\* The results as combineClusteringData leaves them: the sort reorders the
\* array of allClusters and forEach writes `id` into the objects that array
\* holds, so a cluster of the results changes where it is one of them.
ResultsAfterCombine(rs) ==
    LET sorted == SortBySize(PushedObjects(rs, 1))
        Written(ref) == \E p \in 1..Len(sorted) : sorted[p].ref = ref
        IdWritten(ref) ==
            (CHOOSE p \in 1..Len(sorted) : sorted[p].ref = ref) - 1
    IN  [ i \in 1..Len(rs) |->
            IF rs[i].clustering = Null THEN rs[i]
            ELSE [ rs[i] EXCEPT !.clustering = Some(
                     [ @[1] EXCEPT !.clusters =
                         [ j \in 1..Len(@) |->
                             IF Written(<< i, j >>)
                             THEN [ @[j] EXCEPT !.id = IdWritten(<< i, j >>) ]
                             ELSE @[j] ] ]) ] ]

combineClusteringDataSkipsErroring(rs) ==
    LET clean == SelectSeq(rs, LAMBDA r : r.clustering = Null
                                            \/ r.clustering[1].error = Null)
        merged == MergeLoop(clean, EmptyClustering, 0)
    IN  Some([ merged EXCEPT !.clusters = ReassignIds(SortBySize(@)) ])

\* combineClusteringData(results): the loop, the sort, the new ids; the object
\* built is returned whatever the results hold
combineClusteringData(rs) ==
    LET merged == MergeLoop(rs, EmptyClustering, 0)
    IN  Some([ merged EXCEPT !.clusters = ReassignIds(SortBySize(@)) ])

----------------------------------------------------------------------------
(* Inputs of the combineClusteringData runs *)

ClusterKinds == { [ id |-> 0, name |-> "x" ], [ id |-> 2, name |-> "y" ] }

PhrasesOf(name, size) == [ i \in 1..size |-> name ]

Clusters ==
    { [ id |-> k.id, name |-> k.name, size |-> s, phrases |-> PhrasesOf(k.name, s) ] :
        k \in ClusterKinds, s \in 1..MaxSize }

RECURSIVE SeqsUpTo(_, _)
SeqsUpTo(S, n) ==
    IF n = 0 THEN { << >> }
    ELSE LET prev == SeqsUpTo(S, n - 1)
         IN  prev \cup { Append(q, x) : q \in prev, x \in S }

RECURSIVE SumSizes(_)
SumSizes(cs) == IF cs = << >> THEN 0 ELSE Head(cs).size + SumSizes(Tail(cs))

\* what a cluster set carries besides its clusters
Extras == { [ unclustered |-> << "q" >>, error |-> Null ],
            [ unclustered |-> << "p" >>, error |-> Some("clustering failed") ] }

\* how a succeeded result carries its share of the clusters: without
\* clustering data (then it has no share), or in a cluster set with one of the
\* Extras
Carriers == { Null } \cup { Some(e) : e \in Extras }

CombineBody(cs, carrier) ==
    [ domain |-> << "a" >>, ads_count |-> 0, ads |-> << >>,
      clustering |->
          IF carrier = Null THEN Null
          ELSE Some([ clusters |-> cs,
                      unclustered |-> carrier[1].unclustered,
                      total_phrases |-> SumSizes(cs) + Len(carrier[1].unclustered),
                      error |-> carrier[1].error ]) ]

\* The succeeded results of one merge: at most MaxDomains results that hold at
\* most MaxClusters clusters in all, the clusters `flat` cut into the results'
\* shares at the positions `cut`.
InitCombine ==
    /\ \E flat \in SeqsUpTo(Clusters, MaxClusters), n \in 1..MaxDomains :
         \E cut \in [ 0..n -> 0..Len(flat) ], carrier \in [ 1..n -> Carriers ] :
            /\ cut[0] = 0 /\ cut[n] = Len(flat)
            /\ \A i \in 1..n : cut[i - 1] <= cut[i]
            /\ \A i \in 1..n : carrier[i] = Null => cut[i - 1] = cut[i]
            /\ results = [ i \in 1..n |->
                             CombineBody(SubSeq(flat, cut[i - 1] + 1, cut[i]),
                                         carrier[i]) ]
    /\ allClusters = Null /\ offsetClusters = << >> /\ cstage = "input"
    /\ NormIdle /\ SrchIdle /\ TagIdle /\ HookIdle

Combine ==
    /\ cstage = "input"
    /\ allClusters' = combineClusteringData(results)
    /\ offsetClusters' = MergeLoop(results, EmptyClustering, 0).clusters
    /\ results' = ResultsAfterCombine(results)
    /\ cstage' = "done"
    /\ UNCHANGED << normVars, srchVars, tagVars, hookVars >>

NextCombine == Combine

SpecCombine == InitCombine /\ [][NextCombine]_vars

----------------------------------------------------------------------------
(* searchSingleDomain and searchAds (services/api.ts) *)

\* new ApiError(message, statusCode?)
ApiError(message, statusCode) ==
    [ name |-> "ApiError", message |-> message, statusCode |-> statusCode,
      instanceOfError |-> TRUE ]

\* what fetch rejects with when the request cannot be completed
NetworkError ==
    [ name |-> "TypeError", message |-> "Failed to fetch", statusCode |-> Null,
      instanceOfError |-> TRUE ]

\* what response.json() rejects with on an undecodable body
DecodeError ==
    [ name |-> "SyntaxError", message |-> "Unexpected token", statusCode |-> Null,
      instanceOfError |-> TRUE ]

\* what reading errorData.detail throws when errorData is null
DetailReadError ==
    [ name |-> "TypeError",
      message |-> "Cannot read properties of null (reading 'detail')",
      statusCode |-> Null, instanceOfError |-> TRUE ]

OkStatus == 200
NonOkStatuses == { 404, 500 }

\* `HTTP error: ${response.status}`
HttpErrorMessage(status) == "HTTP error: " \o ToString(status)

\* A JSON body as the code reads it: undecodable, the value null, or an object
\* with or without a detail.
JsonBody(json, detail) == [ json |-> json, detail |-> detail ]

\* await response.json().catch(() => ({})): an undecodable body is read as {}
ReadErrorData(body) ==
    IF body.json = "undecodable" THEN JsonBody("object", Null) ELSE body

\* new ApiError(errorData.detail || `HTTP error: ${response.status}`,
\* response.status); reading .detail of null throws
ErrorOfResponse(errorData, status) ==
    IF errorData.json = "null" THEN DetailReadError
    ELSE ApiError(IF errorData.detail # Null /\ errorData.detail[1] # ""
                  THEN errorData.detail[1]
                  ELSE HttpErrorMessage(status),
                  Some(status))

FetchRequestNormalized(domain) ==
    [ url |-> "/ads/domain/with-text", method |-> "POST",
      domain |-> normalizeDomain(domain) ]

\* the fetch call of searchSingleDomain: POST with body.domain = domain.trim()
FetchRequest(domain) ==
    [ url |-> "/ads/domain/with-text", method |-> "POST", domain |-> trim(domain) ]

\* A promise: its state, its value or error once settled and, for the promise
\* of searchSingleDomain, the status of the response and what the body of a
\* non-success response was read as.
Pending(st) ==
    [ state |-> st, status |-> 0, errorData |-> Null, value |-> Null,
      error |-> Null ]

Fulfilled(p, v) == [ p EXCEPT !.state = "fulfilled", !.value = v ]

Rejected(p, e) == [ p EXCEPT !.state = "rejected", !.error = Some(e) ]

Settled(p) == p.state \in { "fulfilled", "rejected" }

CatchRethrows(p) == p

\* .catch((error) => { console.error(...); return null })
CatchReturnNull(p) ==
    IF p.state = "rejected"
    THEN [ p EXCEPT !.state = "fulfilled", !.value = Null, !.error = Null ]
    ELSE p

\* domains.map((domain) => searchSingleDomain({...}).catch(...)) as it stands
\* now: the promise of each domain, in the order of domains
WrappedPromises(ps) == [ i \in 1..Len(ps) |-> CatchReturnNull(ps[i]) ]

RECURSIVE FirstRejected(_, _)
FirstRejected(ws, order) ==
    IF ws[Head(order)].state = "rejected" THEN ws[Head(order)].error[1]
    ELSE FirstRejected(ws, Tail(order))

PromiseAllInCompletionOrder(ws) ==
    IF \E i \in 1..Len(ws) : ws[i].state = "rejected"
    THEN Rejected(Pending("pending"), FirstRejected(ws, settleOrder))
    ELSE IF \A i \in 1..Len(ws) : ws[i].state = "fulfilled"
    THEN Fulfilled(Pending("pending"),
                   [ k \in 1..Len(ws) |-> ws[settleOrder[k]].value ])
    ELSE Pending("pending")

\* Promise.all(searchPromises): rejects with the first rejection, otherwise
\* fulfils, once every promise has, with the values in the order of the array
PromiseAll(ws) ==
    IF \E i \in 1..Len(ws) : ws[i].state = "rejected"
    THEN Rejected(Pending("pending"), FirstRejected(ws, settleOrder))
    ELSE IF \A i \in 1..Len(ws) : ws[i].state = "fulfilled"
    THEN Fulfilled(Pending("pending"),
                   [ i \in 1..Len(ws) |-> ws[i].value ])
    ELSE Pending("pending")

FilterSuccessfulInCompletionOrder(rs) ==
    LET completed == [ k \in 1..Len(settleOrder) |-> rs[settleOrder[k]] ]
        kept == SelectSeq(completed, LAMBDA r : r # Null)
    IN  [ i \in 1..Len(kept) |-> kept[i][1] ]

\* results.filter((r) => r !== null)
FilterSuccessful(rs) ==
    LET kept == SelectSeq(rs, LAMBDA r : r # Null)
    IN  [ i \in 1..Len(kept) |-> kept[i][1] ]

RECURSIVE Deduplicated(_)
Deduplicated(xs) ==
    IF xs = << >> THEN << >>
    ELSE LET rest == Deduplicated(SubSeq(xs, 1, Len(xs) - 1))
             x == xs[Len(xs)]
         IN  IF \E i \in 1..Len(rest) : rest[i] = x THEN rest ELSE Append(rest, x)

RECURSIVE Concatenated(_)
Concatenated(successfulResults) ==
    IF successfulResults = << >> THEN << >>
    ELSE Head(successfulResults).ads \o Concatenated(Tail(successfulResults))

FlatMapAdsDeduplicated(successfulResults) ==
    Deduplicated(Concatenated(successfulResults))

\* successfulResults.flatMap((r) => r.ads)
FlatMapAds(successfulResults) == Concatenated(successfulResults)

EmptyResponse ==
    [ domains |-> << >>, ads_count |-> 0, ads |-> << >>, clustering |-> Null ]

AllFailedNotChecked(successfulResults) == FALSE

\* successfulResults.length === 0
AllFailed(successfulResults) == Len(successfulResults) = 0

\* the part of searchAds behind `await Promise.all`, given the array it yields
CombineResults(rs) ==
    LET successfulResults == FilterSuccessful(rs) IN
    IF AllFailed(successfulResults)
    THEN Rejected(Pending("pending"), ApiError("All domain searches failed", Null))
    ELSE LET allAds == FlatMapAds(successfulResults)
             combinedClustering == combineClusteringData(successfulResults)
         IN  Fulfilled(Pending("pending"),
                 Some([ domains |-> [ i \in 1..Len(successfulResults) |->
                                        successfulResults[i].domain ],
                        ads_count |-> Len(allAds),
                        ads |-> allAds,
                        clustering |-> combinedClustering ]))

DispatchFirstOnly(ds) == << FetchRequest(ds[1]) >>

\* domains.map((domain) => searchSingleDomain({ domain, ... })): the fetch calls
\* issued, one per entry of domains, before anything is awaited
DispatchAll(ds) == [ i \in 1..Len(ds) |-> FetchRequest(ds[i]) ]

NoDomainsNotChecked(ds) == FALSE

\* domains.length === 0
NoDomains(ds) == Len(ds) = 0

----------------------------------------------------------------------------
(* Inputs of the searchAds runs *)

Domains == { << "a" >>, << "\n", "B" >> }

ResponseDomains == { << "a" >>, << "b" >> }

Payloads ==
    { [ ads |-> << "ad1", "ad2" >>, clustering |-> Null ],
      [ ads |-> << "ad1" >>,
        clustering |-> Some([ clusters |-> << [ id |-> 0, name |-> "x", size |-> 1,
                                               phrases |-> << "x" >> ] >>,
                              unclustered |-> << "p" >>,
                              total_phrases |-> 2,
                              error |-> Null ]) ] }

ResponseBodies ==
    { [ domain |-> d, ads_count |-> Len(p.ads), ads |-> p.ads,
        clustering |-> p.clustering ] : d \in ResponseDomains, p \in Payloads }

\* the body of a non-success response: undecodable, the JSON value null, an
\* object without detail, an object with a detail message
ErrorBodies ==
    { JsonBody("undecodable", Null), JsonBody("null", Null),
      JsonBody("object", Null), JsonBody("object", Some("Quota exceeded")) }

----------------------------------------------------------------------------
(* A searchAds run *)

Init ==
    /\ pc = "idle" /\ domains = << >> /\ requests = << >>
    /\ searchPromises = << >> /\ settleOrder = << >> /\ outcome = Null
    /\ invocations = 0
    /\ NormIdle /\ CombIdle /\ TagIdle /\ HookIdle

SearchAdsCached(ds) ==
    /\ pc \in { "idle", "done" }
    /\ invocations < MaxInvocations
    /\ invocations' = invocations + 1
    /\ domains' = ds
    /\ IF NoDomains(ds)
       THEN /\ outcome' = Some(Fulfilled(Pending("pending"), Some(EmptyResponse)))
            /\ pc' = "done"
            /\ requests' = << >>
            /\ searchPromises' = << >>
            /\ settleOrder' = << >>
       ELSE IF pc = "done" /\ ds = domains
       THEN /\ requests' = << >>
            /\ pc' = "done"
            /\ UNCHANGED << searchPromises, settleOrder, outcome >>
       ELSE /\ requests' = DispatchAll(ds)
            /\ searchPromises' = [ i \in 1..Len(ds) |-> Pending("fetching") ]
            /\ pc' = "awaiting"
            /\ outcome' = Null
            /\ settleOrder' = << >>
    /\ UNCHANGED << normVars, combVars, tagVars, hookVars >>

\* searchAds(params) up to its `await`: the empty request returns at once, any
\* other starts searchSingleDomain for every domain, each up to its fetch.
\* Nothing is kept from one call of searchAds to the next.
SearchAds(ds) ==
    /\ pc \in { "idle", "done" }
    /\ invocations < MaxInvocations
    /\ invocations' = invocations + 1
    /\ domains' = ds
    /\ settleOrder' = << >>
    /\ IF NoDomains(ds)
       THEN /\ outcome' = Some(Fulfilled(Pending("pending"), Some(EmptyResponse)))
            /\ pc' = "done"
            /\ requests' = << >>
            /\ searchPromises' = << >>
       ELSE /\ requests' = DispatchAll(ds)
            /\ searchPromises' = [ i \in 1..Len(ds) |-> Pending("fetching") ]
            /\ pc' = "awaiting"
            /\ outcome' = Null
    /\ UNCHANGED << normVars, combVars, tagVars, hookVars >>

\* fetch resolves with a response; searchSingleDomain goes on to read its body
FetchResponds(i, status) ==
    /\ pc = "awaiting"
    /\ searchPromises[i].state = "fetching"
    /\ searchPromises' = [ searchPromises EXCEPT ![i] =
                             [ @ EXCEPT !.state = "reading", !.status = status ] ]
    /\ UNCHANGED << pc, domains, requests, settleOrder, outcome, invocations >>
    /\ UNCHANGED << normVars, combVars, tagVars, hookVars >>

FetchFailsCancelsOthers(i) ==
    /\ pc = "awaiting"
    /\ searchPromises[i].state = "fetching"
    /\ searchPromises' =
           [ j \in 1..Len(searchPromises) |->
               IF j = i \/ ~Settled(searchPromises[j])
               THEN Rejected(searchPromises[j], NetworkError)
               ELSE searchPromises[j] ]
    /\ settleOrder' =
           settleOrder \o << i >> \o
           SelectSeq([ j \in 1..Len(searchPromises) |-> j ],
                     LAMBDA j : j # i /\ ~Settled(searchPromises[j]))
    /\ UNCHANGED << pc, domains, requests, outcome, invocations >>
    /\ UNCHANGED << normVars, combVars, tagVars, hookVars >>

\* fetch rejects (network failure): searchSingleDomain rejects with its error
FetchFails(i) ==
    /\ pc = "awaiting"
    /\ searchPromises[i].state = "fetching"
    /\ searchPromises' = [ searchPromises EXCEPT ![i] = Rejected(@, NetworkError) ]
    /\ settleOrder' = Append(settleOrder, i)
    /\ UNCHANGED << pc, domains, requests, outcome, invocations >>
    /\ UNCHANGED << normVars, combVars, tagVars, hookVars >>

\* return response.json() of a success response, decoded
BodyDecoded(i, body) ==
    /\ pc = "awaiting"
    /\ searchPromises[i].state = "reading"
    /\ searchPromises[i].status = OkStatus
    /\ searchPromises' = [ searchPromises EXCEPT ![i] = Fulfilled(@, Some(body)) ]
    /\ settleOrder' = Append(settleOrder, i)
    /\ UNCHANGED << pc, domains, requests, outcome, invocations >>
    /\ UNCHANGED << normVars, combVars, tagVars, hookVars >>

\* return response.json() of a success response, undecodable
BodyUndecodable(i) ==
    /\ pc = "awaiting"
    /\ searchPromises[i].state = "reading"
    /\ searchPromises[i].status = OkStatus
    /\ searchPromises' = [ searchPromises EXCEPT ![i] = Rejected(@, DecodeError) ]
    /\ settleOrder' = Append(settleOrder, i)
    /\ UNCHANGED << pc, domains, requests, outcome, invocations >>
    /\ UNCHANGED << normVars, combVars, tagVars, hookVars >>

\* if (!response.ok): errorData read, the error built from it thrown
ErrorBodyRead(i, body) ==
    /\ pc = "awaiting"
    /\ searchPromises[i].state = "reading"
    /\ searchPromises[i].status \in NonOkStatuses
    /\ LET status == searchPromises[i].status
           errorData == ReadErrorData(body)
       IN  searchPromises' = [ searchPromises EXCEPT ![i] =
                                 Rejected([ @ EXCEPT !.errorData = Some(errorData) ],
                                          ErrorOfResponse(errorData, status)) ]
    /\ settleOrder' = Append(settleOrder, i)
    /\ UNCHANGED << pc, domains, requests, outcome, invocations >>
    /\ UNCHANGED << normVars, combVars, tagVars, hookVars >>

SearchAdsResumesEarly ==
    /\ pc = "awaiting"
    /\ \E i \in 1..Len(searchPromises) : Settled(searchPromises[i])
    /\ outcome' = Some(CombineResults(
                          [ i \in 1..Len(searchPromises) |->
                              CatchReturnNull(searchPromises[i]).value ]))
    /\ pc' = "done"
    /\ UNCHANGED << domains, requests, searchPromises, settleOrder, invocations >>
    /\ UNCHANGED << normVars, combVars, tagVars, hookVars >>

\* searchAds behind `await Promise.all(searchPromises)`
SearchAdsResumes ==
    /\ pc = "awaiting"
    /\ LET all == PromiseAll(WrappedPromises(searchPromises)) IN
       /\ Settled(all)
       /\ outcome' = IF all.state = "rejected"
                     THEN Some(all)
                     ELSE Some(CombineResults(all.value))
    /\ pc' = "done"
    /\ UNCHANGED << domains, requests, searchPromises, settleOrder, invocations >>
    /\ UNCHANGED << normVars, combVars, tagVars, hookVars >>

Next ==
    \/ \E ds \in SeqsUpTo(Domains, MaxDomains) : SearchAds(ds)
    \/ \E i \in 1..Len(searchPromises), status \in { OkStatus } \cup NonOkStatuses :
          FetchResponds(i, status)
    \/ \E i \in 1..Len(searchPromises) : FetchFails(i)
    \/ \E i \in 1..Len(searchPromises), body \in ResponseBodies : BodyDecoded(i, body)
    \/ \E i \in 1..Len(searchPromises) : BodyUndecodable(i)
    \/ \E i \in 1..Len(searchPromises), body \in ErrorBodies :
          ErrorBodyRead(i, body)
    \/ SearchAdsResumes

Spec == Init /\ [][Next]_vars

----------------------------------------------------------------------------
(* DomainTagInput (components/DomainTagInput): the list of domains it is     *)
(* given and hands back through onChange, and the text of its input field.  *)

\* domains.includes(normalized)
includes(ds, d) == \E i \in 1..Len(ds) : ds[i] = d

addDomainUnchecked(ds, v) == Append(ds, normalizeDomain(v))

\* addDomain(value): the list handed to onChange, or the list as it is when
\* onChange is not called
addDomain(ds, v) ==
    LET normalizedValue == normalizeDomain(v) IN
    IF normalizedValue # << >> /\ ~includes(ds, normalizedValue)
    THEN Append(ds, normalizedValue)
    ELSE ds

\* removeDomain(domainToRemove): domains.filter((d) => d !== domainToRemove)
removeDomain(ds, domainToRemove) == SelectSeq(ds, LAMBDA d : d # domainToRemove)

\* what is typed or pasted into the field, behind any white space
TagTexts == { << >>, << "a" >>, << "A" >>, << "b" >>,
              << "w","w","w",".","b" >>, << "w","w","w",".","w","w","w",".","b" >>,
              WwwPrefix, << "/" >> }

TagInputs == { lead \o t : lead \in Blanks(MaxBlank), t \in TagTexts }

Keys == { "Enter", ",", "Backspace", "Tab" }

\* the lists the component is first rendered with
TagSeeds == { << >>, << << "a" >> >>, << << "x" >>, << "a" >> >> }

InitTag ==
    /\ tagDomains \in TagSeeds /\ inputValue = << >> /\ tagEvent = "rendered"
    /\ NormIdle /\ CombIdle /\ SrchIdle /\ HookIdle

\* onChange of the input field: setInputValue(e.target.value)
SetInputValue(v) ==
    /\ inputValue' = v
    /\ tagEvent' = "typed"
    /\ UNCHANGED tagDomains
    /\ UNCHANGED << normVars, combVars, srchVars, hookVars >>

\* addDomain(inputValue) with its setInputValue('')
AddFromInput ==
    /\ tagDomains' = addDomain(tagDomains, inputValue)
    /\ inputValue' = << >>
    /\ tagEvent' = IF tagDomains' # tagDomains THEN "added" ELSE "refused"

\* handleKeyDown(e)
HandleKeyDown(key) ==
    /\ IF key \in { "Enter", "," }
       THEN IF trim(inputValue) # << >>
            THEN AddFromInput
            ELSE tagEvent' = "ignored" /\ UNCHANGED << tagDomains, inputValue >>
       ELSE IF key = "Backspace" /\ inputValue = << >> /\ Len(tagDomains) > 0
       THEN /\ tagDomains' = removeDomain(tagDomains, tagDomains[Len(tagDomains)])
            /\ tagEvent' = "removed"
            /\ UNCHANGED inputValue
       ELSE tagEvent' = "ignored" /\ UNCHANGED << tagDomains, inputValue >>
    /\ UNCHANGED << normVars, combVars, srchVars, hookVars >>

\* handleBlur()
HandleBlur ==
    /\ IF trim(inputValue) # << >>
       THEN AddFromInput
       ELSE tagEvent' = "ignored" /\ UNCHANGED << tagDomains, inputValue >>
    /\ UNCHANGED << normVars, combVars, srchVars, hookVars >>

\* onClick of the remove button of the tag of domain d
RemoveClick(d) ==
    /\ includes(tagDomains, d)
    /\ tagDomains' = removeDomain(tagDomains, d)
    /\ tagEvent' = "removed"
    /\ UNCHANGED inputValue
    /\ UNCHANGED << normVars, combVars, srchVars, hookVars >>

NextTag ==
    \/ \E v \in TagInputs : SetInputValue(v)
    \/ \E key \in Keys : HandleKeyDown(key)
    \/ HandleBlur
    \/ \E i \in 1..Len(tagDomains) : RemoveClick(tagDomains[i])

SpecTag == InitTag /\ [][NextTag]_vars

----------------------------------------------------------------------------
(* useAdsSearch (hooks/useAdsSearch.ts): its three pieces of state and the   *)
(* searches started through it, each awaiting searchAds or settled.         *)

\* the domain lists search is called with
SearchedDomains == { << >>, << << "a" >> >>, << << "a" >>, << "b" >> >> }

\* what searchAds can reject with
SearchAdsErrors == { ApiError("All domain searches failed", Null) }

\* a provider call of a search: in flight, failed, or answered with a result
\* that names a domain
InFlightCall == [ state |-> "inflight", domain |-> Null ]
FailedCall == [ state |-> "failed", domain |-> Null ]
AnsweredCall(d) == [ state |-> "ok", domain |-> Some(d) ]

\* the domains the answers of the provider name: the one submitted for the
\* first domain searched, another one for the second
AnsweredDomains == { << "a" >> }

\* how a provider call can settle
CallOutcomes == { FailedCall } \cup { AnsweredCall(d) : d \in AnsweredDomains }

\* successfulResults.map((r) => r.domain) of the k-th search started: the
\* domains the answers name, in the order of the submitted domains
SucceededDomains(k) ==
    LET called == SelectSeq([ i \in 1..Len(searches[k].domains) |-> i ],
                            LAMBDA i : searches[k].calls[i].state = "ok")
    IN  [ n \in 1..Len(called) |-> searches[k].calls[called[n]].domain[1] ]

\* `data` of the k-th search started: the combined result of its domains
SearchAdsData(k) == [ search |-> k, domains |-> SucceededDomains(k) ]

\* err instanceof Error ? err.message : 'An error occurred'
ErrorMessage(err) ==
    IF err.instanceOfError THEN err.message ELSE "An error occurred"

InFlight == \E k \in 1..Len(searches) : searches[k].state = "awaiting"

\* every provider call of the k-th search has settled
AllSettled(k) ==
    \A i \in 1..Len(searches[k].calls) : searches[k].calls[i].state # "inflight"

SomeSucceeded(k) ==
    \E i \in 1..Len(searches[k].calls) : searches[k].calls[i].state = "ok"

InitHook ==
    /\ hookResults = Null /\ isLoading = FALSE /\ hookError = Null
    /\ searches = << >> /\ overlapped = FALSE
    /\ NormIdle /\ CombIdle /\ SrchIdle /\ TagIdle

SearchValidationClears(ds) ==
    /\ overlapped' = (overlapped \/ InFlight)
    /\ IF Len(ds) = 0
       THEN /\ hookError' = Some("Please enter at least one domain")
            /\ hookResults' = Null
            /\ UNCHANGED << isLoading, searches >>
       ELSE /\ Len(searches) < MaxSearches
            /\ isLoading' = TRUE
            /\ hookError' = Null
            /\ hookResults' = Null
            /\ searches' = Append(searches,
                   [ domains |-> ds, state |-> "awaiting", overlaps |-> InFlight,
                     calls |-> [ i \in 1..Len(ds) |-> InFlightCall ] ])
    /\ UNCHANGED << normVars, combVars, srchVars, tagVars >>

\* search(params) up to its return or its `await searchAds(params)`, which has
\* started a provider call for every domain
Search(ds) ==
    /\ overlapped' = (overlapped \/ InFlight)
    /\ IF Len(ds) = 0
       THEN /\ hookError' = Some("Please enter at least one domain")
            /\ UNCHANGED << hookResults, isLoading, searches >>
       ELSE /\ Len(searches) < MaxSearches
            /\ isLoading' = TRUE
            /\ hookError' = Null
            /\ hookResults' = Null
            /\ searches' = Append(searches,
                   [ domains |-> ds, state |-> "awaiting", overlaps |-> InFlight,
                     calls |-> [ i \in 1..Len(ds) |-> InFlightCall ] ])
    /\ UNCHANGED << normVars, combVars, srchVars, tagVars >>

\* the provider call for the i-th domain of the k-th search settles
ProviderCallSettles(k, i, how) ==
    /\ k \in 1..Len(searches)
    /\ i \in 1..Len(searches[k].calls)
    /\ searches[k].calls[i].state = "inflight"
    /\ searches' = [ searches EXCEPT ![k].calls[i] = how ]
    /\ UNCHANGED << hookResults, isLoading, hookError, overlapped >>
    /\ UNCHANGED << normVars, combVars, srchVars, tagVars >>

\* searchAds resolved: setResults(data), finally setIsLoading(false)
SearchAdsReturns(k) ==
    /\ k \in 1..Len(searches)
    /\ searches[k].state = "awaiting"
    /\ AllSettled(k) /\ SomeSucceeded(k)
    /\ hookResults' = Some(SearchAdsData(k))
    /\ isLoading' = FALSE
    /\ searches' = [ searches EXCEPT ![k].state = "resolved" ]
    /\ UNCHANGED << hookError, overlapped >>
    /\ UNCHANGED << normVars, combVars, srchVars, tagVars >>

SearchAdsThrowsKeepsLoading(k, err) ==
    /\ k \in 1..Len(searches)
    /\ searches[k].state = "awaiting"
    /\ AllSettled(k) /\ ~SomeSucceeded(k)
    /\ hookError' = Some(ErrorMessage(err))
    /\ searches' = [ searches EXCEPT ![k].state = "rejected" ]
    /\ UNCHANGED << hookResults, isLoading, overlapped >>
    /\ UNCHANGED << normVars, combVars, srchVars, tagVars >>

\* searchAds rejected: setError(message), finally setIsLoading(false)
SearchAdsThrows(k, err) ==
    /\ k \in 1..Len(searches)
    /\ searches[k].state = "awaiting"
    /\ AllSettled(k) /\ ~SomeSucceeded(k)
    /\ hookError' = Some(ErrorMessage(err))
    /\ isLoading' = FALSE
    /\ searches' = [ searches EXCEPT ![k].state = "rejected" ]
    /\ UNCHANGED << hookResults, overlapped >>
    /\ UNCHANGED << normVars, combVars, srchVars, tagVars >>

\* clearResults()
ClearResults ==
    /\ hookResults' = Null
    /\ hookError' = Null
    /\ overlapped' = (overlapped \/ InFlight)
    /\ UNCHANGED << isLoading, searches >>
    /\ UNCHANGED << normVars, combVars, srchVars, tagVars >>

NextHook ==
    \/ \E ds \in SearchedDomains : Search(ds)
    \/ \E k \in 1..MaxSearches, i \in 1..MaxDomains, how \in CallOutcomes :
          ProviderCallSettles(k, i, how)
    \/ \E k \in 1..MaxSearches : SearchAdsReturns(k)
    \/ \E k \in 1..MaxSearches, err \in SearchAdsErrors : SearchAdsThrows(k, err)
    \/ ClearResults

SpecHook == InitHook /\ [][NextHook]_vars

\* Every provider call settles, and a search whose searchAds has settled runs
\* on.
HookFairness ==
    /\ \A k \in 1..MaxSearches :
           /\ WF_vars(SearchAdsReturns(k))
           /\ WF_vars(\E err \in SearchAdsErrors : SearchAdsThrows(k, err))
           /\ \A i \in 1..MaxDomains :
                  WF_vars(\E how \in CallOutcomes :
                             ProviderCallSettles(k, i, how))

SpecHookLive == SpecHook /\ HookFairness

----------------------------------------------------------------------------
(* Properties of searchAds *)

Called == pc = "done" /\ outcome # Null

Resolved == Called /\ outcome[1].state = "fulfilled"

Thrown == Called /\ outcome[1].state = "rejected"

CombinedResult == outcome[1].value[1]

SucceededCalls ==
    SelectSeq([ i \in 1..Len(searchPromises) |-> i ],
              LAMBDA i : searchPromises[i].state = "fulfilled")

\* the responses of the calls that succeeded, in submission order
Succeeded ==
    [ k \in 1..Len(SucceededCalls) |-> searchPromises[SucceededCalls[k]].value[1] ]

\* the submitted domains whose call succeeded, in submission order
SubmittedSucceeded ==
    [ k \in 1..Len(SucceededCalls) |-> domains[SucceededCalls[k]] ]

RECURSIVE AdsInOrder(_)
AdsInOrder(bodies) ==
    IF bodies = << >> THEN << >>
    ELSE AdsInOrder(SubSeq(bodies, 1, Len(bodies) - 1)) \o bodies[Len(bodies)].ads

RECURSIVE AdCount(_)
AdCount(bodies) ==
    IF bodies = << >> THEN 0 ELSE Len(Head(bodies).ads) + AdCount(Tail(bodies))

\* C1: when at least one call succeeds and the others fail, searchAds resolves
\* and every part of the combined result is built from the successful
\* responses alone.
PartialFailure ==
    (pc = "done" /\ domains # << >> /\ SucceededCalls # << >>) =>
        /\ Resolved
        /\ Len(CombinedResult.domains) = Len(Succeeded)
        /\ \A k \in 1..Len(Succeeded) :
               CombinedResult.domains[k] = Succeeded[k].domain
        /\ CombinedResult.ads = AdsInOrder(Succeeded)
        /\ CombinedResult.clustering = combineClusteringData(Succeeded)

\* Of two calls the first failed with status 500 and the second succeeded.
PartialFailureWitness ==
    /\ Resolved
    /\ Len(domains) = 2
    /\ searchPromises[1].state = "rejected"
    /\ searchPromises[1].error[1].statusCode = Some(500)
    /\ searchPromises[2].state = "fulfilled"
    /\ CombinedResult.ads = searchPromises[2].value[1].ads
    /\ Len(CombinedResult.domains) = 1

\* C2: when every call fails, searchAds fails with the one aggregate error and
\* yields no combined result.
TotalFailure ==
    (pc = "done" /\ domains # << >> /\ SucceededCalls = << >>) =>
        /\ Thrown
        /\ outcome[1].error = Some(ApiError("All domain searches failed", Null))
        /\ outcome[1].value = Null

\* Two calls failed in different ways, one aggregate error came out.
TotalFailureWitness ==
    /\ Thrown
    /\ Len(domains) = 2
    /\ searchPromises[1].state = "rejected"
    /\ searchPromises[2].state = "rejected"
    /\ searchPromises[1].error[1].name = "TypeError"
    /\ searchPromises[2].error[1].name = "ApiError"
    /\ outcome[1].error[1].message = "All domain searches failed"

\* C3 as stated: the domains of the combined result are the submitted domains
\* whose call succeeded, in submission order.
FanOutDomainsAreSubmitted ==
    (Resolved /\ domains # << >>) => CombinedResult.domains = SubmittedSucceeded

\* C3 amended: for every completion order the domains of the combined result
\* are the domain fields of the successful responses in submission order of
\* their calls, hence the submitted domains whose call succeeded whenever every
\* successful response carries the domain string that was submitted.
FanOutDeterminism ==
    (Resolved /\ domains # << >>) =>
        /\ CombinedResult.domains =
               [ k \in 1..Len(Succeeded) |-> Succeeded[k].domain ]
        /\ (\A k \in 1..Len(Succeeded) : Succeeded[k].domain = SubmittedSucceeded[k])
               => CombinedResult.domains = SubmittedSucceeded

\* ['\nB', a] was submitted, a's call completed first, the result lists [b, a].
FanOutDeterminismWitness ==
    /\ Resolved
    /\ domains = << << "\n", "B" >>, << "a" >> >>
    /\ settleOrder = << 2, 1 >>
    /\ searchPromises[1].state = "fulfilled"
    /\ searchPromises[2].state = "fulfilled"
    /\ searchPromises[1].value[1].domain = << "b" >>
    /\ searchPromises[2].value[1].domain = << "a" >>
    /\ CombinedResult.domains = << << "b" >>, << "a" >> >>

\* C4 as stated: searchAds with an empty domain list fails, without any
\* network call.
EmptyDomainSetFails ==
    (pc = "done" /\ domains = << >>) => (Thrown /\ requests = << >>)

\* C4 amended: searchAds with an empty domain list issues no network call and
\* resolves to the empty combined result.
EmptyDomainSetResolves ==
    (pc = "done" /\ domains = << >>) =>
        /\ Resolved
        /\ CombinedResult = [ domains |-> << >>, ads_count |-> 0, ads |-> << >>,
                              clustering |-> Null ]
        /\ requests = << >>
        /\ searchPromises = << >>

EmptyDomainSetWitness ==
    /\ Resolved
    /\ domains = << >>
    /\ requests = << >>
    /\ CombinedResult.ads_count = 0

\* C7: the ads of the combined result are the ads of the succeeded domains
\* concatenated in submission order, none dropped, moved or deduplicated, and
\* ads_count is their number.
AdConcatenation ==
    (Resolved /\ domains # << >>) =>
        /\ CombinedResult.ads = AdsInOrder(Succeeded)
        /\ CombinedResult.ads_count = Len(CombinedResult.ads)
        /\ CombinedResult.ads_count = AdCount(Succeeded)

\* Two domains returned the same ad; both copies are in the result.
AdConcatenationWitness ==
    /\ Resolved
    /\ Len(Succeeded) = 2
    /\ CombinedResult.ads = << "ad1", "ad2", "ad1" >>
    /\ CombinedResult.ads_count = 3

\* C8: when no succeeded domain carries clustering data the clustering of the
\* combined result is null.
ClusteringAbsentWhenNoneHasIt ==
    (Resolved /\ domains # << >>
        /\ \A k \in 1..Len(Succeeded) : Succeeded[k].clustering = Null)
    => CombinedResult.clustering = Null

\* the domain list was not empty and its calls have been started
Dispatched == pc \in { "awaiting", "done" } /\ domains # << >>

\* C12 as stated: no two calls are issued for domains with the same normal
\* form, and every domain sent is in normal form.
DispatchNormalizedDeduplicated ==
    Dispatched =>
        /\ \A i, j \in 1..Len(requests) :
               i # j => normalizeDomain(requests[i].domain) #
                            normalizeDomain(requests[j].domain)
        /\ \A i \in 1..Len(requests) :
               requests[i].domain = normalizeDomain(requests[i].domain)

\* C12 amended: searchAds issues one call per entry of the domain list, in the
\* order of the list, each carrying its entry with the surrounding white space
\* removed and nothing else changed; equal entries are each sent.
DispatchPerEntryTrimmed ==
    Dispatched =>
        /\ Len(requests) = Len(domains)
        /\ \A i \in 1..Len(requests) : requests[i].domain = trim(domains[i])

\* ['\nB', '\nB'] was passed: two calls, both for 'B'.
DispatchPerEntryTrimmedWitness ==
    /\ pc = "awaiting"
    /\ domains = << << "\n", "B" >>, << "\n", "B" >> >>
    /\ Len(requests) = 2
    /\ requests[1].domain = << "B" >>
    /\ requests[2].domain = << "B" >>

\* C13: the step of searchAds that starts the calls starts all of them, one
\* per domain, each with its fetch in flight and none settled; no call is
\* started by a later step.
ConcurrentStart ==
    [][ /\ (pc # "awaiting" /\ pc' = "awaiting") =>
              /\ Len(requests') = Len(domains')
              /\ Len(searchPromises') = Len(domains')
              /\ \A i \in 1..Len(searchPromises') :
                     searchPromises'[i].state = "fetching"
        /\ pc = "awaiting" => requests' = requests ]_vars

\* Two domains were passed and both calls are in flight, neither answered.
ConcurrentStartWitness ==
    /\ pc = "awaiting"
    /\ Len(domains) = 2
    /\ Len(requests) = 2
    /\ searchPromises[1].state = "fetching"
    /\ searchPromises[2].state = "fetching"
    /\ settleOrder = << >>

\* C14: while the calls are in flight a step changes the promise of one call
\* only and never that of a settled call, so a failing call cancels no other
\* and a success stays what its own response made it; once searchAds is done
\* every success is in the combined result, in place and unchanged.
FailureIsolation ==
    /\ [][ (pc = "awaiting" /\ pc' = "awaiting") =>
              \A i \in 1..Len(searchPromises) :
                  /\ Settled(searchPromises[i]) =>
                         searchPromises'[i] = searchPromises[i]
                  /\ searchPromises'[i] # searchPromises[i] =>
                         \A j \in 1..Len(searchPromises) :
                             j # i => searchPromises'[j] = searchPromises[j] ]_vars
    /\ [](( pc = "done" /\ SucceededCalls # << >> ) =>
              /\ Resolved
              /\ Len(CombinedResult.domains) = Len(Succeeded)
              /\ \A k \in 1..Len(Succeeded) :
                     CombinedResult.domains[k] = Succeeded[k].domain
              /\ CombinedResult.ads = AdsInOrder(Succeeded))

\* The first call failed on the network while the second was in flight; the
\* second succeeded afterwards and its ads are the combined result's.
FailureIsolationWitness ==
    /\ Resolved
    /\ Len(domains) = 2
    /\ settleOrder = << 1, 2 >>
    /\ searchPromises[1].state = "rejected"
    /\ searchPromises[1].status = 0
    /\ searchPromises[1].error[1] = NetworkError
    /\ searchPromises[2].state = "fulfilled"
    /\ searchPromises[2].value[1].ads # << >>
    /\ CombinedResult.ads = searchPromises[2].value[1].ads
    /\ CombinedResult.domains = << searchPromises[2].value[1].domain >>

\* C15: searchAds has returned or thrown only when every call it started has
\* settled.
CombineAfterAllSettled ==
    (Dispatched /\ (pc = "done" \/ outcome # Null)) =>
        /\ Len(settleOrder) = Len(searchPromises)
        /\ \A i \in 1..Len(searchPromises) : Settled(searchPromises[i])

\* Both calls failed, the second first; searchAds has thrown after both.
CombineAfterAllSettledWitness ==
    /\ Thrown
    /\ Len(domains) = 2
    /\ settleOrder = << 2, 1 >>
    /\ searchPromises[1].state = "rejected"
    /\ searchPromises[2].state = "rejected"

\* C16: in every call of searchAds with n >= 1 domains, the first or a later
\* one, exactly n requests are issued, the i-th for the i-th domain, and that
\* stays so whether the calls succeed or fail.
NoRetryNoCaching ==
    Dispatched =>
        /\ Len(requests) = Len(domains)
        /\ Len(searchPromises) = Len(domains)
        /\ \A i \in 1..Len(requests) : requests[i] = FetchRequest(domains[i])

\* A second call of searchAds, for two equal domains, is done: two requests
\* were issued in it, one call failed and one succeeded.
NoRetryNoCachingWitness ==
    /\ invocations = 2
    /\ pc = "done"
    /\ Len(domains) = 2
    /\ domains[1] = domains[2]
    /\ Len(requests) = 2
    /\ searchPromises[1].state = "rejected"
    /\ searchPromises[2].state = "fulfilled"

\* the call that failed with a non-success status
FailedWithStatus(i) ==
    /\ searchPromises[i].state = "rejected"
    /\ searchPromises[i].status \in NonOkStatuses

\* C17 as stated: when searchAds fails and a call failed with a non-success
\* status, the message searchAds fails with is the message of such a call.
DetailMessageReachesCaller ==
    (Thrown /\ \E i \in 1..Len(searchPromises) : FailedWithStatus(i)) =>
        \E i \in 1..Len(searchPromises) :
            /\ FailedWithStatus(i)
            /\ outcome[1].error[1].message = searchPromises[i].error[1].message

\* C18: whatever makes a call fail, its error is an ApiError: with the status
\* for a non-success status, without a status for a network failure, and an
\* ApiError too for a success response that cannot be decoded.
EveryFailureIsApiError ==
    \A i \in 1..Len(searchPromises) :
        searchPromises[i].state = "rejected" =>
            LET p == searchPromises[i]
                e == p.error[1]
            IN  /\ e.name = "ApiError"
                /\ p.status \in NonOkStatuses => e.statusCode = Some(p.status)
                /\ p.status = 0 => e.statusCode = Null

\* the number of ads of the succeeded calls submitted before the k-th of them
AdsBefore(k) == AdCount(SubSeq(Succeeded, 1, k - 1))

\* C26: whatever the order in which the calls complete, the ads of the k-th
\* succeeded call, in submission order, stand in the combined ads behind the
\* ads of all succeeded calls submitted before it, in their own order.
AdsOrderUnderRaces ==
    (Resolved /\ domains # << >>) =>
        /\ Len(CombinedResult.ads) = AdCount(Succeeded)
        /\ \A k \in 1..Len(Succeeded) :
               \A a \in 1..Len(Succeeded[k].ads) :
                   CombinedResult.ads[AdsBefore(k) + a] = Succeeded[k].ads[a]

\* The second call completed first with [ad1], the first after it with
\* [ad1, ad2]: the combined ads are [ad1, ad2, ad1].
AdsOrderUnderRacesWitness ==
    /\ Resolved
    /\ Len(domains) = 2
    /\ settleOrder = << 2, 1 >>
    /\ searchPromises[1].state = "fulfilled"
    /\ searchPromises[2].state = "fulfilled"
    /\ searchPromises[1].value[1].ads = << "ad1", "ad2" >>
    /\ searchPromises[2].value[1].ads = << "ad1" >>
    /\ CombinedResult.ads = << "ad1", "ad2", "ad1" >>

----------------------------------------------------------------------------
(* Properties of combineClusteringData *)

RECURSIVE AppendedClusters(_)
AppendedClusters(rs) ==
    IF rs = << >> THEN << >>
    ELSE (IF Head(rs).clustering = Null THEN << >>
          ELSE Head(rs).clustering[1].clusters) \o AppendedClusters(Tail(rs))

WithoutId(c) == [ name |-> c.name, size |-> c.size, phrases |-> c.phrases ]

OfSize(cs, s) ==
    LET same == SelectSeq(cs, LAMBDA c : c.size = s)
    IN  [ i \in 1..Len(same) |-> WithoutId(same[i]) ]

\* C5: the merged cluster list has as many clusters as the domains contributed
\* together, and their ids are exactly 0..N-1, each carried by one cluster.
ClusterIdsDense ==
    cstage = "done" =>
        LET merged == allClusters[1].clusters
            N == Len(AppendedClusters(results))
        IN  /\ allClusters # Null
            /\ Len(merged) = N
            /\ \A i \in 1..N : merged[i].id \in 0..(N - 1)
            /\ \A k \in 0..(N - 1) :
                   Cardinality({ i \in 1..N : merged[i].id = k }) = 1

\* Two domains with colliding, non-dense local ids and three clusters in all.
ClusterIdsDenseWitness ==
    /\ cstage = "done"
    /\ Len(results) = 2
    /\ Len(AppendedClusters(results)) = 3
    /\ \E i, j \in 1..3 : i # j /\ AppendedClusters(results)[i].id
                                     = AppendedClusters(results)[j].id
    /\ \E i \in 1..3 : AppendedClusters(results)[i].id = 2
    /\ { allClusters[1].clusters[i].id : i \in 1..3 } = { 0, 1, 2 }

\* C6: the merged list is ordered by size descending, clusters of one size keep
\* their append order, and the cluster at position i carries id i.
ClusterOrdering ==
    cstage = "done" =>
        LET merged == allClusters[1].clusters
            appended == AppendedClusters(results)
        IN  /\ \A i, j \in 1..Len(merged) :
                   i < j => merged[i].size >= merged[j].size
            /\ \A s \in 1..(MaxSize + 1) : OfSize(merged, s) = OfSize(appended, s)
            /\ \A i \in 1..Len(merged) : merged[i].id = i - 1
            /\ \A i, j \in 1..Len(merged) :
                   merged[i].id < merged[j].id => merged[i].size >= merged[j].size

\* A smaller cluster appended before a larger one, and two clusters of one size
\* with different names appended in the order y, x.
ClusterOrderingWitness ==
    /\ cstage = "done"
    /\ LET appended == AppendedClusters(results)
           merged == allClusters[1].clusters
       IN  /\ Len(appended) = 3
           /\ appended[1].size < appended[2].size
           /\ appended[1].size = appended[3].size
           /\ appended[1].name = "y" /\ appended[3].name = "x"
           /\ merged[1].size > merged[2].size
           /\ merged[2].name = "y" /\ merged[3].name = "x"

\* the clusters of the cluster sets that carry no error, appended in order
RECURSIVE AppendedWithoutErroring(_)
AppendedWithoutErroring(rs) ==
    IF rs = << >> THEN << >>
    ELSE (IF Head(rs).clustering = Null \/ Head(rs).clustering[1].error # Null
          THEN << >>
          ELSE Head(rs).clustering[1].clusters)
         \o AppendedWithoutErroring(Tail(rs))

Erroring(r) == r.clustering # Null /\ r.clustering[1].error # Null

\* C20 as stated: a cluster set that carries an error contributes no cluster,
\* whatever clusters it lists, and the merge yields a cluster set.
ErroringClusterSetContributesNone ==
    cstage = "done" =>
        /\ allClusters # Null
        /\ \A s \in 1..(MaxSize + 1) :
               OfSize(allClusters[1].clusters, s)
                   = OfSize(AppendedWithoutErroring(results), s)

\* C20 amended: a cluster set that carries an error contributes the clusters
\* it lists, none when it lists none, like any other cluster set; the merge
\* yields a cluster set, whose error is null.
ErroringClusterSetMerged ==
    cstage = "done" =>
        /\ allClusters # Null
        /\ allClusters[1].error = Null
        /\ Len(allClusters[1].clusters) = Len(AppendedClusters(results))
        /\ \A i \in 1..Len(results) :
               Erroring(results[i]) =>
                   \A s \in 1..(MaxSize + 1) :
                       Len(OfSize(allClusters[1].clusters, s))
                           >= Len(OfSize(results[i].clustering[1].clusters, s))
        /\ (\A i \in 1..Len(results) :
                Erroring(results[i]) => results[i].clustering[1].clusters = << >>)
               => \A s \in 1..(MaxSize + 1) :
                      OfSize(allClusters[1].clusters, s)
                          = OfSize(AppendedWithoutErroring(results), s)

\* Of two domains the first has an erroring cluster set that lists one cluster,
\* the second a cluster set without error that lists one; the merge has both.
ErroringClusterSetMergedWitness ==
    /\ cstage = "done"
    /\ Len(results) = 2
    /\ Erroring(results[1])
    /\ Len(results[1].clustering[1].clusters) = 1
    /\ results[2].clustering # Null
    /\ ~Erroring(results[2])
    /\ Len(results[2].clustering[1].clusters) = 1
    /\ Len(allClusters[1].clusters) = 2
    /\ allClusters[1].error = Null

\* the unclustered phrases of the results that have clustering data, in order
RECURSIVE AppendedUnclustered(_)
AppendedUnclustered(rs) ==
    IF rs = << >> THEN << >>
    ELSE (IF Head(rs).clustering = Null THEN << >>
          ELSE Head(rs).clustering[1].unclustered)
         \o AppendedUnclustered(Tail(rs))

RECURSIVE SumTotalPhrases(_)
SumTotalPhrases(rs) ==
    IF rs = << >> THEN 0
    ELSE (IF Head(rs).clustering = Null THEN 0
          ELSE Head(rs).clustering[1].total_phrases)
         + SumTotalPhrases(Tail(rs))

WithClustering(rs) == SelectSeq(rs, LAMBDA r : r.clustering # Null)

\* C21: the merged unclustered list is the unclustered lists of the results
\* with clustering data, one behind the other in the order of the results,
\* the merged total is the sum of their totals, and the merge is what it
\* would be were the results without clustering data not there.
MergedUnclusteredAndTotals ==
    cstage = "done" =>
        /\ allClusters[1].unclustered = AppendedUnclustered(results)
        /\ allClusters[1].total_phrases = SumTotalPhrases(results)
        /\ allClusters = combineClusteringData(WithClustering(results))

\* The first of two domains lists the unclustered phrase p, the second q: the
\* merge lists p, q and counts the phrases of both.
MergedUnclusteredAndTotalsWitness ==
    /\ cstage = "done"
    /\ Len(results) = 2
    /\ results[1].clustering # Null
    /\ results[2].clustering # Null
    /\ results[1].clustering[1].unclustered = << "p" >>
    /\ results[2].clustering[1].unclustered = << "q" >>
    /\ results[1].clustering[1].clusters # << >>
    /\ allClusters[1].unclustered = << "p", "q" >>
    /\ allClusters[1].total_phrases =
           results[1].clustering[1].total_phrases
               + results[2].clustering[1].total_phrases
    /\ allClusters[1].total_phrases > 2

\* how often cs holds a cluster of the name, size and phrases of c
Occurrences(cs, c) == Cardinality({ i \in 1..Len(cs) : WithoutId(cs[i]) = c })

\* C22: the clusters of the merged set and the clusters the domains
\* contributed correspond one to one with name, size and phrases kept: either
\* holds each cluster, ids left aside, as often as the other.
MergeChangesOnlyIds ==
    cstage = "done" =>
        LET merged == allClusters[1].clusters
            appended == AppendedClusters(results)
        IN  /\ Len(merged) = Len(appended)
            /\ \A i \in 1..Len(appended) :
                   Occurrences(merged, WithoutId(appended[i]))
                       = Occurrences(appended, WithoutId(appended[i]))
            /\ \A i \in 1..Len(merged) :
                   Occurrences(appended, WithoutId(merged[i]))
                       = Occurrences(merged, WithoutId(merged[i]))

\* Two domains contributed the same cluster (name, size, phrases) and the
\* first another one: the merged set holds all three, the equal ones twice.
MergeChangesOnlyIdsWitness ==
    /\ cstage = "done"
    /\ Len(results) = 2
    /\ LET appended == AppendedClusters(results)
           merged == allClusters[1].clusters
       IN  /\ Len(appended) = 3
           /\ results[1].clustering # Null
           /\ Len(results[1].clustering[1].clusters) = 2
           /\ WithoutId(appended[1]) = WithoutId(appended[3])
           /\ WithoutId(appended[1]) # WithoutId(appended[2])
           /\ appended[1].phrases # << >>
           /\ Len(merged) = 3
           /\ Occurrences(merged, WithoutId(appended[1])) = 2

\* C23: combineClusteringData leaves every per-domain result as it was given:
\* the ids, the order and the contents of each domain's clusters are after
\* the merge what they were before it.
CombineLeavesInputs ==
    [][ (cstage = "input" /\ cstage' = "done") => results' = results ]_vars

\* The first domain lists a cluster of id 2 before a larger one of id 0; the
\* merge lists the larger first and numbers them 0 and 1, the domain's own
\* list is as it was.
CombineLeavesInputsWitness ==
    /\ cstage = "done"
    /\ Len(results) = 1
    /\ results[1].clustering # Null
    /\ LET own == results[1].clustering[1].clusters
           merged == allClusters[1].clusters
       IN  /\ Len(own) = 2
           /\ own[1].id = 2 /\ own[2].id = 0
           /\ own[1].size < own[2].size
           /\ Len(merged) = 2
           /\ WithoutId(merged[1]) = WithoutId(own[2])
           /\ merged[1].id = 0 /\ merged[2].id = 1

\* the ids of the clusters of r are pairwise different
UniqueIds(r) ==
    r.clustering # Null =>
        LET cs == r.clustering[1].clusters
        IN  \A a, b \in 1..Len(cs) : a # b => cs[a].id # cs[b].id

\* C24: when the ids are unique within every domain's cluster set, no two
\* clusters of the combined list share an id after the loop that offsets them.
OffsetIdsDistinct ==
    (cstage = "done" /\ \A i \in 1..Len(results) : UniqueIds(results[i])) =>
        \A a, b \in 1..Len(offsetClusters) :
            a # b => offsetClusters[a].id # offsetClusters[b].id

----------------------------------------------------------------------------
(* Properties of DomainTagInput *)

\* C11: the domain list holds no empty string and no value twice, whatever
\* was typed, added or removed.
TagListClean ==
    /\ \A i \in 1..Len(tagDomains) : tagDomains[i] # << >>
    /\ \A i, j \in 1..Len(tagDomains) : i # j => tagDomains[i] # tagDomains[j]

\* The list was rendered as [x, a]; b was added, and the last input, which
\* was not blank, was refused.
TagListCleanWitness ==
    /\ tagEvent = "refused"
    /\ tagDomains = << << "x" >>, << "a" >>, << "b" >> >>
    /\ inputValue = << >>

\* C30: every entry of the list is a fixed point of normalizeDomain, and no
\* two entries normalize to the same domain.
EntriesAreFixedPoints ==
    /\ \A i \in 1..Len(tagDomains) :
           normalizeDomain(tagDomains[i]) = tagDomains[i]
    /\ \A i, j \in 1..Len(tagDomains) :
           i # j => normalizeDomain(tagDomains[i]) # normalizeDomain(tagDomains[j])

----------------------------------------------------------------------------
(* Properties of useAdsSearch *)

\* C19: as long as no call was made while a search was in flight, results and
\* error are not both set.
ResultsOrErrorNeverBoth ==
    ~overlapped => ~(hookResults # Null /\ hookError # Null)

ValidationMessage == "Please enter at least one domain"

\* C25: a call of search with an empty domain list sets the error to the
\* validation message and leaves isLoading, results and the searches in
\* flight, with their provider calls, as they were.
ValidationAtHook ==
    [][ Search(<< >>) =>
            /\ hookError' = Some(ValidationMessage)
            /\ isLoading' = isLoading
            /\ hookResults' = hookResults
            /\ searches' = searches ]_vars

\* A search has resolved and set results; search was then called with an
\* empty list: the error is the validation message, the results are still
\* there, nothing is loading and no further search was started.
ValidationAtHookWitness ==
    /\ hookError = Some(ValidationMessage)
    /\ hookResults # Null
    /\ isLoading = FALSE
    /\ Len(searches) = 1
    /\ searches[1].state = "resolved"

\* what the hook shows of the k-th search once it has settled
Reflects(k) ==
    /\ searches[k].state = "resolved" =>
           hookResults = Some(SearchAdsData(k)) /\ hookError = Null
    /\ searches[k].state = "rejected" =>
           hookError = Some("All domain searches failed") /\ hookResults = Null

\* C27: when the search started last was started while an earlier one was in
\* flight, then at the step that settles the last of the searches in flight
\* results and error are those of the search started last.
LaterSearchWins ==
    [][ ( /\ InFlight /\ ~InFlight'
          /\ Len(searches) >= 2
          /\ searches[Len(searches)].overlaps ) => Reflects(Len(searches))' ]_vars

\* C28: isLoading is true exactly when a search started past validation has
\* not settled.
LoadingIffInFlight == isLoading <=> InFlight

\* the k-th search has settled and the hook shows it: nothing is loading and
\* the call has set results, when a provider call of its succeeded, or else
\* error; the other of the two is null when no call was made while a search
\* was in flight
SettledAs(k) ==
    /\ k \in 1..Len(searches)
    /\ isLoading = FALSE
    /\ AllSettled(k)
    /\ \/ /\ searches[k].state = "resolved" /\ SomeSucceeded(k)
          /\ hookResults = Some(SearchAdsData(k))
          /\ ~overlapped => hookError = Null
       \/ /\ searches[k].state = "rejected" /\ ~SomeSucceeded(k)
          /\ hookError = Some("All domain searches failed")
          /\ ~overlapped => hookResults = Null

\* C29: every search started with a non-empty domain list leads to a state in
\* which it has settled, nothing is loading, and the call has set results
\* (some provider call of its succeeded) or error (none did), not both.
SearchLiveness ==
    \A k \in 1..MaxSearches :
        (k \in 1..Len(searches) /\ searches[k].state = "awaiting") ~> SettledAs(k)

\* The second of two searches one after the other has failed in all its
\* provider calls and set the error; the first had resolved.
SearchLivenessWitness ==
    /\ Len(searches) = 2
    /\ ~overlapped
    /\ searches[1].state = "resolved"
    /\ searches[2].state = "rejected"
    /\ Len(searches[2].domains) = 2
    /\ SettledAs(2)
    /\ hookResults = Null

----------------------------------------------------------------------------
(* Properties of normalizeDomain *)

\* C9: normalizing a normalized domain changes nothing.
NormalizationIdempotent ==
    nstage = "twice" => renormalized = normalized

IsBlank(s) == \A i \in 1..Len(s) : s[i] \in WhiteSpace

\* The www. prefix of an input is the one the normalizer strips: where the
\* input is read as having no www. prefix, its host name does not begin with one.
PrefixRead(p) ==
    /\ p.structured
    /\ p.www = << >> => ~ StartsWith(toLowerCase(p.host), WwwPrefix)

\* C10: for whitespace, scheme, www. prefix, host name, one trailing slash and
\* whitespace the result is the lower-cased host name; for blank input it is
\* the empty string.
NormalizationResult ==
    nstage # "input" =>
        /\ PrefixRead(parts) => normalized = Some(toLowerCase(parts.host))
        /\ IsBlank(value) => normalized = Some(<< >>)

\* " https://www.É.Co/" has been normalized to "é.co".
NormalizationResultWitness ==
    /\ nstage = "once"
    /\ parts.structured
    /\ parts.lead = << " " >>
    /\ parts.scheme = HttpsScheme
    /\ parts.www = WwwPrefix
    /\ parts.host = << "É",".","C","o" >>
    /\ parts.slash = << "/" >>
    /\ normalized = Some(<< "é",".","c","o" >>)

====
